---- MODULE Spec2Model ----
(***************************************************************************)
(* Asynchronous webset job tracking: WebsetJobManager (startWebsetJob,     *)
(* getJobStatus, handleWebhookUpdate), WebhookHandler (processWebhook,     *)
(* validatePayload, normalizeEventType, routeWebhook) and the /webhooks/exa*)
(* endpoint of the HTTP server.                                            *)
(*                                                                         *)
(* The program runs on one event loop: code between two awaits is one      *)
(* atomic step.  startWebsetJob suspends once (the POST), getJobStatus     *)
(* suspends once (the GET), handleWebhookUpdate never suspends.            *)
(***************************************************************************)
EXTENDS Integers, FiniteSets, Sequences, TLC

\* ---------------------------------------------------------------- bounds
\* events from outside explored in one run: startWebsetJob calls, getJobStatus
\* calls that reach the upstream GET, webhook requests, and ticks of the clock
MaxEvents == 4
\* under LiveSpec: polls suspended at the same time, and jobs submitted (half
\* of the events, the other half being the polls that settle them)
LivePolls == 2
LiveJobs == MaxEvents \div 2

\* ------------------------------------------------------------ value sets
Null == "null"

\* enum JobStatus
PENDING == "pending"
RUNNING == "running"
COMPLETED == "completed"
FAILED == "failed"
JobStatus == {PENDING, RUNNING, COMPLETED, FAILED}

JobIds == 1..MaxEvents
\* one slot for each getJobStatus call that reaches its GET
Pollers == 1..MaxEvents

\* ids the upstream service hands out for websets, one per create call (the
\* upstream never hands out an id twice)
UpstreamId(jobId) == <<"w1", "w2", "w3", "w4", "w5", "w6", "w7", "w8">>[jobId]
CreatedIds == {UpstreamId(j) : j \in JobIds}
\* data.id of the webhook events explored: the websets of the first two jobs
\* and "w0", a webset that no create call of this process ever returned
WebsetIds == {"w0", "w1", "w2"}

\* searches of an ExaWebsetsResponse, reduced to what the code reads:
\* "empty" is searches = [], otherwise the value is searches[0].status;
\* "missing" is a webhook body whose data has no searches field at all
\* (the GET response is typed and always carries the array)
PollShapes == {"empty", "running", "completed", "canceled"}
HookShapes == {"missing", "running", "completed", "canceled"}

\* a null object reference (JobData.results before any response, a body's
\* missing data)
NullData == [id |-> Null, object |-> Null, searches |-> Null]

\* the upstream object stored in JobData.results
WebsetData(id, shape) == [id |-> id, object |-> "webset", searches |-> shape]

\* error strings, one token for each message the code builds
ErrCreate == "Exa API Error"
ErrPollCanceled == "Webset creation was canceled"
ErrHookCanceled == "Webset processing failed or was canceled via webhook"
ErrStatusCheck == "Status check failed"

VARIABLES
  jobs,            \* WebsetJobManager.jobs: jobId -> JobData (insertion order = jobId order)
  now,             \* the wall clock
  startPc,         \* jobId -> position of its startWebsetJob call
  initialJobData,  \* jobId -> the initialJobData local of its startWebsetJob call
  createCalls,     \* jobId -> number of POST /websets/v0/websets issued for it
  createResp,      \* jobId -> id in the create response (Null: none yet or failed)
  returned,        \* jobIds handed back to the caller of create_webset_async
  pollPc,          \* poller -> "idle" | "fetch" (suspended at the GET)
  pollJob,         \* poller -> the job local read before the GET
  fetchCalls,      \* number of upstream GETs issued
  hookAcked,       \* webhook requests acknowledged with 200
  hookHandled,     \* webhook requests whose 'end' listener has run
  hookFinal,       \* history: jobIds whose record a webhook made COMPLETED or FAILED
  last             \* what the step just taken gave back: the value a getJobStatus
                   \* call resolved to, or what the webhook listener did; NoLast
                   \* after a step that hands nothing back

vars == <<jobs, now, startPc, initialJobData, createCalls, createResp, returned,
          pollPc, pollJob, fetchCalls, hookAcked, hookHandled, hookFinal, last>>

startVars == <<startPc, initialJobData, createCalls, createResp, returned>>
pollVars == <<pollPc, pollJob, fetchCalls>>
hookVars == <<hookAcked, hookHandled, hookFinal>>

NoJob == [jobId |-> 0]
\* the shape of last: op is "poll" or "webhook"; kind says how it ended;
\* status, results and error are the value a poll resolved to; event is the
\* type the webhook body carried
Last(op, kind, jobId, status, results, error, event) ==
  [op |-> op, kind |-> kind, jobId |-> jobId, status |-> status,
   results |-> results, error |-> error, event |-> event]
NoLast == Last("none", "none", 0, Null, NullData, Null, Null)

IsTerminal(job) == job.status = COMPLETED \/ job.status = FAILED

\* Map.set on a key: a new key is appended, an existing key keeps its place
MapSet(m, k, v) == [x \in DOMAIN m \cup {k} |-> IF x = k THEN v ELSE m[x]]

\* events from outside so far
Events == Cardinality(DOMAIN jobs) + fetchCalls + hookAcked + now

Init ==
  /\ jobs = <<>>
  /\ now = 0
  /\ startPc = <<>>
  /\ initialJobData = <<>>
  /\ createCalls = <<>>
  /\ createResp = <<>>
  /\ returned = {}
  /\ pollPc = [p \in Pollers |-> "idle"]
  /\ pollJob = [p \in Pollers |-> NoJob]
  /\ fetchCalls = 0
  /\ hookAcked = 0
  /\ hookHandled = 0
  /\ hookFinal = {}
  /\ last = NoLast

\* time passes between two steps of the event loop
Tick ==
  /\ Events < MaxEvents
  /\ now' = now + 1
  /\ last' = NoLast
  /\ UNCHANGED <<jobs, startVars, pollVars, hookVars>>

\* ------------------------------------------------------- startWebsetJob
\* uuidv4(): an id no record of the registry has
NewJobId == Cardinality(DOMAIN jobs) + 1

\* the initialJobData literal
InitialJobData(jobId, t) ==
  [jobId |-> jobId, websetId |-> Null, status |-> PENDING, results |-> NullData,
   error |-> Null, createdAt |-> t, updatedAt |-> t]

CreatedJobDataNewCreatedAt(initial, websetId, t) ==
  [initial EXCEPT !.websetId = websetId, !.status = RUNNING, !.createdAt = t,
                  !.updatedAt = t]

CreatedJobDataStaysPending(initial, websetId, t) ==
  [initial EXCEPT !.websetId = websetId, !.updatedAt = t]

\* updatedJobData after the create call resolved with response.id = websetId
CreatedJobData(initial, websetId, t) ==
  [initial EXCEPT !.websetId = websetId, !.status = RUNNING, !.updatedAt = t]

CreateFailedJobDataNoError(initial, t) ==
  [initial EXCEPT !.status = FAILED, !.updatedAt = t]

\* errorJobData of the catch block
CreateFailedJobData(initial, t) ==
  [initial EXCEPT !.status = FAILED, !.error = ErrCreate, !.updatedAt = t]

IssueCreateWithRetry(calls, jobId) == MapSet(calls, jobId, 2)

\* the one _callExaApi('post', '/websets/v0/websets') of startWebsetJob
IssueCreate(calls, jobId) == MapSet(calls, jobId, 1)

\* startWebsetJob up to its await: the record is stored and the POST is issued
startWebsetJobBegin ==
  /\ Events < MaxEvents
  /\ LET jobId == NewJobId
     IN /\ jobs' = MapSet(jobs, jobId, InitialJobData(jobId, now))
        /\ initialJobData' = MapSet(initialJobData, jobId, InitialJobData(jobId, now))
        /\ startPc' = MapSet(startPc, jobId, "await")
        /\ createCalls' = IssueCreate(createCalls, jobId)
        /\ createResp' = MapSet(createResp, jobId, Null)
  /\ last' = NoLast
  /\ UNCHANGED <<now, returned, pollVars, hookVars>>

\* the POST resolved: the record becomes RUNNING and the jobId is returned
startWebsetJobCreated(jobId, websetId) ==
  /\ jobId \in DOMAIN jobs
  /\ websetId = UpstreamId(jobId)
  /\ startPc[jobId] = "await"
  /\ jobs' = MapSet(jobs, jobId, CreatedJobData(initialJobData[jobId], websetId, now))
  /\ createResp' = [createResp EXCEPT ![jobId] = websetId]
  /\ startPc' = [startPc EXCEPT ![jobId] = "returned"]
  /\ returned' = returned \cup {jobId}
  /\ last' = NoLast
  /\ UNCHANGED <<now, initialJobData, createCalls, pollVars, hookVars>>

\* the POST rejected: the record becomes FAILED and the jobId is still returned
startWebsetJobCreateFailed(jobId) ==
  /\ jobId \in DOMAIN jobs
  /\ startPc[jobId] = "await"
  /\ jobs' = MapSet(jobs, jobId, CreateFailedJobData(initialJobData[jobId], now))
  /\ startPc' = [startPc EXCEPT ![jobId] = "returned"]
  /\ returned' = returned \cup {jobId}
  /\ last' = NoLast
  /\ UNCHANGED <<now, initialJobData, createCalls, createResp, pollVars, hookVars>>

\* --------------------------------------------------------- getJobStatus
\* what a getJobStatus call resolves to: { status, results, error }
Ret(kind, job) ==
  Last("poll", kind, job.jobId, job.status, job.results, job.error, Null)

ReturnsStoredOnlyCompleted(job) == job.status = COMPLETED

\* the first guard: a COMPLETED or FAILED record is returned as stored
ReturnsStored(job) == job.status = COMPLETED \/ job.status = FAILED

HasNoWebsetIdNever(job) == FALSE

\* the second guard: !job.websetId
HasNoWebsetId(job) == job.websetId = Null

\* searchStatus of the poll: searches[0].status, or 'not_started' for []
PollSearchStatus(websetData) ==
  IF websetData.searches = "empty" THEN "not_started" ELSE websetData.searches

PollTargetCanceledStaysRunning(job, websetData) ==
  IF PollSearchStatus(websetData) = "completed"
    THEN [status |-> COMPLETED, results |-> websetData, error |-> job.error]
  ELSE [status |-> RUNNING, results |-> websetData, error |-> job.error]

\* newStatus, results, error chosen from the GET response
PollTarget(job, websetData) ==
  LET searchStatus == PollSearchStatus(websetData)
  IN IF searchStatus = "completed"
       THEN [status |-> COMPLETED, results |-> websetData, error |-> job.error]
     ELSE IF searchStatus = "canceled"
       THEN [status |-> FAILED, results |-> websetData, error |-> ErrPollCanceled]
     ELSE [status |-> RUNNING, results |-> websetData, error |-> job.error]

PollUpdatedJobDataKeepsUpdatedAt(job, websetData, t) ==
  LET target == PollTarget(job, websetData)
  IN [job EXCEPT !.status = target.status, !.results = target.results,
                 !.error = target.error]

PollUpdatedJobDataWithoutSpread(job, websetData, t) ==
  LET target == PollTarget(job, websetData)
  IN [InitialJobData(job.jobId, job.createdAt) EXCEPT
        !.status = target.status, !.results = target.results,
        !.error = target.error, !.updatedAt = t]

\* updatedJobData: the job local read before the await, overlaid with the target
PollUpdatedJobData(job, websetData, t) ==
  LET target == PollTarget(job, websetData)
  IN [job EXCEPT !.status = target.status, !.results = target.results,
                 !.error = target.error, !.updatedAt = t]

PollErrorJobDataKeepsStatus(job, t) ==
  [job EXCEPT !.error = ErrStatusCheck, !.updatedAt = t]

\* errorJobData of the catch block around the GET
PollErrorJobData(job, t) ==
  [job EXCEPT !.status = FAILED, !.error = ErrStatusCheck, !.updatedAt = t]

\* getJobStatus up to its await, or to its return when it does not fetch;
\* mayFetch and calls are the bookkeeping of the GET: whether the exploration
\* lets one more be issued, and the count of GETs afterwards
getJobStatusCall(p, jobId, mayFetch, calls) ==
  /\ pollPc[p] = "idle"
  /\ \A q \in Pollers : q < p => pollPc[q] # "idle"   \* calls are anonymous: take the first free slot
  /\ IF jobId \notin DOMAIN jobs
       THEN \* throw new Error(`Job with ID ${jobId} not found.`)
            /\ last' = Last("poll", "not_found", jobId, Null, NullData, Null, Null)
            /\ UNCHANGED <<pollPc, pollJob, fetchCalls>>
     ELSE IF ReturnsStored(jobs[jobId])
       THEN /\ last' = Ret("stored", jobs[jobId])
            /\ UNCHANGED <<pollPc, pollJob, fetchCalls>>
     ELSE IF HasNoWebsetId(jobs[jobId])
       THEN /\ last' = Ret("no_webset", jobs[jobId])
            /\ UNCHANGED <<pollPc, pollJob, fetchCalls>>
     ELSE \* the GET is issued and the call suspends
            /\ mayFetch
            /\ fetchCalls' = calls
            /\ pollPc' = [pollPc EXCEPT ![p] = "fetch"]
            /\ pollJob' = [pollJob EXCEPT ![p] = jobs[jobId]]
            /\ last' = NoLast
  /\ UNCHANGED <<jobs, now, startVars, hookVars>>

\* a getJobStatus call, its GET counted as one more event from outside
getJobStatusBegin(p, jobId) ==
  getJobStatusCall(p, jobId, Events < MaxEvents, fetchCalls + 1)

\* the GET resolved with the webset: the record is overwritten from the job local
getJobStatusFetched(p, shape) ==
  /\ pollPc[p] = "fetch"
  /\ LET job == pollJob[p]
         websetData == WebsetData(job.websetId, shape)
         updatedJobData == PollUpdatedJobData(job, websetData, now)
     IN /\ jobs' = MapSet(jobs, job.jobId, updatedJobData)
        /\ last' = Ret("fetched", updatedJobData)
  /\ pollPc' = [pollPc EXCEPT ![p] = "idle"]
  /\ pollJob' = [pollJob EXCEPT ![p] = NoJob]
  /\ UNCHANGED <<now, startVars, fetchCalls, hookVars>>

\* the GET rejected (transport error, timeout, HTTP error): the catch block
getJobStatusFetchFailed(p) ==
  /\ pollPc[p] = "fetch"
  /\ LET job == pollJob[p]
         errorJobData == PollErrorJobData(job, now)
     IN /\ jobs' = MapSet(jobs, job.jobId, errorJobData)
        /\ last' = Ret("fetch_failed", errorJobData)
  /\ pollPc' = [pollPc EXCEPT ![p] = "idle"]
  /\ pollJob' = [pollJob EXCEPT ![p] = NoJob]
  /\ UNCHANGED <<now, startVars, fetchCalls, hookVars>>

JobStatusToolIsErrorOnlyFailed(ret) == ret.status = FAILED

\* isError of the get_webset_job_status tool's response: set by its catch
\* block when getJobStatus threw, and when the status handed back is FAILED
JobStatusToolIsError(ret) == ret.kind = "not_found" \/ ret.status = FAILED

\* ------------------------------------------------------- WebhookHandler
\* enum WebhookEventType, without UNKNOWN
RecognizedTypes ==
  {"webset.created", "webset.updated", "webset.deleted",
   "webset.search.created", "webset.search.running",
   "webset.search.completed", "webset.search.canceled",
   "webset.enrichment.created", "webset.enrichment.completed",
   "webset.enrichment.canceled"}

\* type strings the bodies of this model carry: the two terminal search
\* events, a search event that is forwarded but names no outcome, a recognized
\* event that is only logged, and one the enum does not know
SentTypes ==
  {"webset.search.completed", "webset.search.canceled", "webset.search.running",
   "webset.created", "webset.item.created"}

\* data of a webhook body
HookData(id, object, shape) == [id |-> id, object |-> object, searches |-> shape]

\* request bodies: text that is not JSON, JSON null, a JSON scalar, and objects
\* with type and data present or missing (Null)
Body(kind, type, data) == [kind |-> kind, type |-> type, data |-> data]

WellFormedBodies ==
  {Body("object", t, HookData(id, "webset", shape)) :
     t \in SentTypes, id \in WebsetIds, shape \in HookShapes}

MalformedBodies ==
  {Body("badjson", Null, NullData), Body("null", Null, NullData),
   Body("scalar", Null, NullData),
   Body("object", Null, HookData("w1", "webset", "completed")),
   Body("object", "webset.search.completed", NullData),
   Body("object", "webset.search.completed", HookData(Null, "webset", "completed")),
   Body("object", "webset.search.completed", HookData("w1", "webset_search", "completed"))}

Bodies == WellFormedBodies \cup MalformedBodies

normalizeEventType(eventType) ==
  IF eventType \in RecognizedTypes THEN eventType ELSE "unknown"

validatePayloadAnyObject(payload) ==
  IF payload.kind # "object"
    THEN [ok |-> FALSE, type |-> Null, data |-> NullData]
  ELSE [ok |-> TRUE, type |-> normalizeEventType(payload.type), data |-> payload.data]

\* validatePayload: ok is FALSE for a rejected payload (the code returns null)
validatePayload(payload) ==
  IF payload.kind # "object"
    THEN [ok |-> FALSE, type |-> Null, data |-> NullData]
  ELSE IF payload.type = Null \/ payload.data = NullData \/ payload.data.id = Null
    THEN [ok |-> FALSE, type |-> Null, data |-> NullData]
  ELSE IF payload.data.object # "webset"
    THEN [ok |-> FALSE, type |-> Null, data |-> NullData]
  ELSE [ok |-> TRUE, type |-> normalizeEventType(payload.type), data |-> payload.data]

RoutedToJobManagerAlsoCreated(type) ==
  type \in {"webset.created",
            "webset.search.completed", "webset.search.canceled",
            "webset.search.created", "webset.search.running",
            "webset.enrichment.completed", "webset.enrichment.canceled"}

\* routeWebhook: the cases of the switch that call handleWebhookUpdate
RoutedToJobManager(type) ==
  type \in {"webset.search.completed", "webset.search.canceled",
            "webset.search.created", "webset.search.running",
            "webset.enrichment.completed", "webset.enrichment.canceled"}

\* -------------------------------------------------- handleWebhookUpdate
FirstMatchAnyJob(websetId) == IF DOMAIN jobs = {} THEN 0 ELSE 1

\* the first entry of this.jobs.entries() whose websetId equals the payload's
\* (0: none); Map iterates in insertion order, which is jobId order
FirstMatch(websetId) ==
  LET hits == {j \in DOMAIN jobs : jobs[j].websetId = websetId}
  IN IF hits = {} THEN 0 ELSE CHOOSE j \in hits : \A k \in hits : j <= k

HookIgnoresOnlyCompleted(job) == job.status = COMPLETED

HookIgnoresNothing(job) == FALSE

\* the guard inside the loop: a terminal job is left alone
HookIgnores(job) == job.status = COMPLETED \/ job.status = FAILED

\* searchStatus of the webhook: searches[0].status, or null without searches
HookSearchStatus(eventData) ==
  IF eventData.searches \in {"missing", "empty"} THEN Null ELSE eventData.searches

HookTargetByTypeOnly(job, eventType, eventData) ==
  IF eventType = "webset.search.completed"
    THEN [thrown |-> FALSE, branch |-> "completed", status |-> COMPLETED,
          results |-> eventData, error |-> Null]
  ELSE IF eventType = "webset.search.canceled"
    THEN [thrown |-> FALSE, branch |-> "canceled", status |-> FAILED,
          results |-> eventData, error |-> ErrHookCanceled]
  ELSE [thrown |-> FALSE, branch |-> "other", status |-> job.status,
        results |-> eventData, error |-> job.error]

HookTargetCompletedKeepsResults(job, eventType, eventData) ==
  LET searchStatus == HookSearchStatus(eventData)
  IN IF eventType = "webset.search.completed" \/ searchStatus = "completed"
       THEN [thrown |-> FALSE, branch |-> "completed", status |-> COMPLETED,
             results |-> job.results, error |-> Null]
     ELSE IF eventType = "webset.search.canceled" \/ searchStatus = "canceled"
       THEN IF eventData.searches = "missing"
              THEN [thrown |-> TRUE, branch |-> "canceled", status |-> job.status,
                    results |-> job.results, error |-> job.error]
              ELSE [thrown |-> FALSE, branch |-> "canceled", status |-> FAILED,
                    results |-> eventData, error |-> ErrHookCanceled]
     ELSE [thrown |-> FALSE, branch |-> "other", status |-> job.status,
           results |-> eventData, error |-> job.error]

\* newStatus, results, error chosen from the event; thrown marks the TypeError
\* of eventData.searches[0] when the payload carries no searches
HookTarget(job, eventType, eventData) ==
  LET searchStatus == HookSearchStatus(eventData)
  IN IF eventType = "webset.search.completed" \/ searchStatus = "completed"
       THEN [thrown |-> FALSE, branch |-> "completed", status |-> COMPLETED,
             results |-> eventData, error |-> Null]
     ELSE IF eventType = "webset.search.canceled" \/ searchStatus = "canceled"
       THEN IF eventData.searches = "missing"
              THEN [thrown |-> TRUE, branch |-> "canceled", status |-> job.status,
                    results |-> job.results, error |-> job.error]
              ELSE [thrown |-> FALSE, branch |-> "canceled", status |-> FAILED,
                    results |-> eventData, error |-> ErrHookCanceled]
     ELSE [thrown |-> FALSE, branch |-> "other", status |-> job.status,
           results |-> eventData, error |-> job.error]

\* the test before the write: results is always the freshly parsed eventData,
\* a different object from whatever job.results refers to, so !== holds
HookChanged(job, target) ==
  \/ target.status # job.status
  \/ TRUE    \* results !== job.results
  \/ target.error # job.error

HookUpdatedJobDataWithoutSpread(job, target, t) ==
  [InitialJobData(job.jobId, t) EXCEPT
     !.status = target.status, !.results = target.results, !.error = target.error]

HookUpdatedJobData(job, target, t) ==
  [job EXCEPT !.status = target.status, !.results = target.results,
              !.error = target.error, !.updatedAt = t]

\* handleWebhookUpdate(payload): the registry afterwards and what happened
handleWebhookUpdate(payload) ==
  LET jobId == FirstMatch(payload.data.id)
  IN IF jobId = 0
       THEN [jobs |-> jobs, outcome |-> "unmatched", jobId |-> 0]
     ELSE LET job == jobs[jobId]
              target == HookTarget(job, payload.type, payload.data)
          IN IF HookIgnores(job)
               THEN [jobs |-> jobs, outcome |-> "ignored", jobId |-> jobId]
             ELSE IF target.thrown
               THEN [jobs |-> jobs, outcome |-> "threw", jobId |-> jobId]
             ELSE IF HookChanged(job, target)
               THEN [jobs |-> MapSet(jobs, jobId, HookUpdatedJobData(job, target, now)),
                     outcome |-> "updated", jobId |-> jobId]
             ELSE [jobs |-> jobs, outcome |-> "same", jobId |-> jobId]

\* processWebhook(payload): validate, route, and hand on to the job manager
processWebhook(payload) ==
  LET validatedPayload == validatePayload(payload)
  IN IF ~validatedPayload.ok
       THEN [jobs |-> jobs, outcome |-> "invalid", jobId |-> 0]
     ELSE IF ~RoutedToJobManager(validatedPayload.type)
       THEN [jobs |-> jobs, outcome |-> "logged", jobId |-> 0]
     ELSE handleWebhookUpdate(validatedPayload)

\* ------------------------------------------------- POST /webhooks/exa
\* what last keeps of a handled body besides its type: the data.id it carried
HookId(body) == [id |-> body.data.id, object |-> Null, searches |-> Null]

\* res.writeHead(200).end(): the acknowledgment, sent before the body is read
WebhookAck ==
  /\ Events < MaxEvents
  /\ hookAcked' = hookAcked + 1
  /\ last' = NoLast
  /\ UNCHANGED <<jobs, now, startVars, pollVars, hookHandled, hookFinal>>

BodyEndedMaybeUnacked(acked, handled) == handled <= acked

\* a request whose 'end' event can fire: its listener is registered only after
\* res.writeHead(200).end() ran, so it is one of the acknowledged requests
BodyEnded(acked, handled) == handled < acked

\* the 'end' listener: JSON.parse, then processWebhook, all in one step
WebhookEnd(body) ==
  /\ BodyEnded(hookAcked, hookHandled)
  /\ hookHandled' = hookHandled + 1
  /\ LET done == IF body.kind \in {"badjson", "null"}
                   THEN [jobs |-> jobs, outcome |-> "parse_error", jobId |-> 0]
                 ELSE processWebhook(body)
     IN /\ jobs' = done.jobs
        /\ hookFinal' = IF done.outcome = "updated" /\ IsTerminal(done.jobs[done.jobId])
                           THEN hookFinal \cup {done.jobId} ELSE hookFinal
        /\ last' = Last("webhook", done.outcome, done.jobId, Null, HookId(body), Null, body.type)
  /\ UNCHANGED <<now, startVars, pollVars, hookAcked>>

Next ==
  \/ Tick
  \/ startWebsetJobBegin
  \/ \E jobId \in JobIds, websetId \in CreatedIds : startWebsetJobCreated(jobId, websetId)
  \/ \E jobId \in JobIds : startWebsetJobCreateFailed(jobId)
  \/ \E p \in Pollers, jobId \in JobIds : getJobStatusBegin(p, jobId)
  \/ \E p \in Pollers, shape \in PollShapes : getJobStatusFetched(p, shape)
  \/ \E p \in Pollers : getJobStatusFetchFailed(p)
  \/ WebhookAck
  \/ \E body \in Bodies : WebhookEnd(body)

Spec == Init /\ [][Next]_vars

\* ------------------------------------------------- the polling path alone
\* a caller that keeps polling: the GETs of these calls are not counted against
\* the events explored
LivePoll(p, jobId) ==
  /\ p <= LivePolls
  /\ getJobStatusCall(p, jobId, TRUE, fetchCalls)

\* a submission, while fewer than LiveJobs jobs exist
LiveSubmit ==
  /\ Cardinality(DOMAIN jobs) < LiveJobs
  /\ startWebsetJobBegin

\* the upstream reports the first search of job jobId as completed or canceled
\* to one of the polls suspended for it
TerminalResponse(jobId) ==
  \E p \in 1..LivePolls :
    /\ pollJob[p].jobId = jobId
    /\ \E shape \in {"completed", "canceled"} : getJobStatusFetched(p, shape)

\* submissions and polls, with every GET answered (no webhook, no failed
\* fetch)
LiveNext ==
  \/ LiveSubmit
  \/ \E jobId \in JobIds, websetId \in CreatedIds : startWebsetJobCreated(jobId, websetId)
  \/ \E jobId \in JobIds : startWebsetJobCreateFailed(jobId)
  \/ \E p \in Pollers, jobId \in JobIds : LivePoll(p, jobId)
  \/ \E p \in Pollers, shape \in PollShapes : getJobStatusFetched(p, shape)

\* fairness: every GET is answered (the HTTP client times out otherwise); the
\* caller keeps polling every job; the upstream eventually reports a job's
\* first search as completed or canceled to the polls that keep asking
LiveSpec ==
  /\ Init
  /\ [][LiveNext]_vars
  /\ \A p \in 1..LivePolls : WF_vars(\E shape \in PollShapes : getJobStatusFetched(p, shape))
  /\ \A jobId \in 1..LiveJobs : SF_vars(\E p \in 1..LivePolls : LivePoll(p, jobId))
  /\ \A jobId \in 1..LiveJobs : SF_vars(TerminalResponse(jobId))

\* ================================================================ claims
\* steps and states the claims speak about

\* a getJobStatus call for jobId begins in this step
PollStarts(jobId) ==
  \/ /\ last'.op = "poll"
     /\ last'.jobId = jobId
     /\ pollPc' = pollPc
  \/ \E p \in Pollers :
       pollPc[p] = "idle" /\ pollPc'[p] = "fetch" /\ pollJob'[p].jobId = jobId

\* a getJobStatus call for jobId is suspended at its GET
PollInFlight(jobId) ==
  \E p \in Pollers : pollPc[p] = "fetch" /\ pollJob[p].jobId = jobId

\* the webhook listener handled a body in this step and it matched jobId
HookHandles(jobId) ==
  /\ last'.op = "webhook"
  /\ last'.jobId = jobId

\* C1: once a record is Completed or Failed its status never changes again, in
\* any interleaving of polls and webhooks.
C1_TerminalStatusNeverChanges ==
  [][\A j \in DOMAIN jobs :
       IsTerminal(jobs[j]) => jobs'[j].status = jobs[j].status]_vars

\* C2: when a poll whose response reports completion resolves for a record
\* that a webhook (or another poll) already completed, it does not write the
\* record again: status, results and updatedAt stay those of the first writer.
C2_LaterCompletionDoesNotWrite ==
  [][\A j \in DOMAIN jobs :
       ( /\ jobs[j].status = COMPLETED
         /\ last'.op = "poll" /\ last'.kind = "fetched"
         /\ last'.jobId = j /\ last'.status = COMPLETED )
       => /\ jobs'[j].status = jobs[j].status
          /\ jobs'[j].results = jobs[j].results
          /\ jobs'[j].updatedAt = jobs[j].updatedAt]_vars

\* C3: a Completed or Failed record with no poll in flight keeps its status,
\* results and error in every later step, and no poll started afterwards goes
\* in flight for it.
C3_TerminalAbsorbsLaterCalls ==
  [][\A j \in DOMAIN jobs :
       (IsTerminal(jobs[j]) /\ ~PollInFlight(j))
       => /\ jobs'[j].status = jobs[j].status
          /\ jobs'[j].results = jobs[j].results
          /\ jobs'[j].error = jobs[j].error
          /\ ~PollInFlight(j)']_vars

\* C3 witness: a webhook for a terminal record with no poll in flight was
\* handled and ignored.
C3_Witness ==
  /\ last.op = "webhook" /\ last.kind = "ignored"
  /\ last.jobId \in DOMAIN jobs
  /\ IsTerminal(jobs[last.jobId])
  /\ ~PollInFlight(last.jobId)

\* C4: a failed upstream fetch of a poll leaves a Running record Running.
C4_FetchFailureKeepsRunning ==
  [][\A j \in DOMAIN jobs :
       ( /\ jobs[j].status = RUNNING
         /\ last'.op = "poll" /\ last'.kind = "fetch_failed" /\ last'.jobId = j )
       => jobs'[j].status = RUNNING]_vars

\* C5: the jobId is handed back as soon as the record exists, while the create
\* call may still be outstanding: every record's jobId has been returned.
C5_JobIdReturnedBeforeCreateResolves ==
  \A j \in DOMAIN jobs : j \in returned

\* C6: when the create call of a job settles, startWebsetJob returns the jobId
\* (it never throws) and the record is Running with the response's id as
\* websetId, or Failed with an error and a null websetId.
C6_StartAlwaysReturnsJobId ==
  [][\A j \in DOMAIN jobs :
       (startPc[j] = "await" /\ startPc'[j] # "await")
       => /\ startPc'[j] = "returned"
          /\ j \in returned'
          /\ j \in DOMAIN jobs'
          /\ \/ /\ jobs'[j].status = RUNNING
                /\ createResp'[j] # Null
                /\ jobs'[j].websetId = createResp'[j]
                /\ jobs'[j].error = Null
             \/ /\ jobs'[j].status = FAILED
                /\ createResp'[j] = Null
                /\ jobs'[j].websetId = Null
                /\ jobs'[j].error # Null]_vars

\* C6 witness: one job returned after a successful create, another after a
\* failed one.
C6_Witness ==
  \E j, k \in DOMAIN jobs :
    /\ j \in returned /\ jobs[j].status = RUNNING /\ jobs[j].websetId = createResp[j]
    /\ k \in returned /\ jobs[k].status = FAILED /\ jobs[k].error = ErrCreate

\* C7: exactly one create request has been issued for every job, whatever
\* polls and webhooks were processed.
C7_SingleCreation ==
  \A j \in DOMAIN jobs : createCalls[j] = 1

\* C7 witness: a job was polled before its websetId was set, a webhook has
\* been handled, and the job still has one create call.
C7_Witness ==
  /\ last.op = "poll" /\ last.kind = "no_webset"
  /\ hookHandled > 0
  /\ createCalls[last.jobId] = 1

\* C8: a poll that starts on a Completed or Failed record resolves to the
\* stored status, results and error, issues no GET and leaves the registry as
\* it is (so a repeated poll gives the same values).
C8_TerminalPollReturnsStored ==
  [][\A j \in DOMAIN jobs :
       (IsTerminal(jobs[j]) /\ PollStarts(j))
       => /\ last' = Last("poll", "stored", j, jobs[j].status, jobs[j].results,
                          jobs[j].error, Null)
          /\ fetchCalls' = fetchCalls
          /\ pollPc' = pollPc
          /\ jobs' = jobs]_vars

\* C8 witness: a poll of a record that an earlier fetch made terminal resolved
\* to the stored values.
C8_Witness ==
  /\ last.op = "poll" /\ last.kind = "stored"
  /\ fetchCalls > 0
  /\ jobs[last.jobId].websetId # Null
  /\ last.status = jobs[last.jobId].status

\* C9: a poll that starts on a non-terminal record with a null websetId
\* resolves to the record's status, results and error, issues no upstream call
\* and writes nothing.
C9_PollWithoutWebsetIdIsPure ==
  [][\A j \in DOMAIN jobs :
       (~IsTerminal(jobs[j]) /\ jobs[j].websetId = Null /\ PollStarts(j))
       => /\ last' = Last("poll", "no_webset", j, jobs[j].status, jobs[j].results,
                          jobs[j].error, Null)
          /\ fetchCalls' = fetchCalls
          /\ createCalls' = createCalls
          /\ pollPc' = pollPc
          /\ jobs' = jobs]_vars

\* C9 witness: a Pending record was polled while its create call was
\* outstanding.
C9_Witness ==
  /\ last.op = "poll" /\ last.kind = "no_webset"
  /\ jobs[last.jobId].status = PENDING
  /\ startPc[last.jobId] = "await"

\* forwarded event types the bodies of this model carry
ForwardedTypes == {t \in SentTypes : RoutedToJobManager(normalizeEventType(t))}

TerminalSearchEvents == {"webset.search.completed", "webset.search.canceled"}

\* C10 as claimed: whenever a webhook updates a record from data that carries
\* a searches array, the status it stores is the one the poll mapping chooses
\* for the same data.
C10_SameTargetStatus ==
  [][\A j \in DOMAIN jobs :
       ( /\ HookHandles(j) /\ last'.kind = "updated"
         /\ jobs'[j].results.searches # "missing" )
       => jobs'[j].status = PollTarget(jobs[j], jobs'[j].results).status]_vars

\* C10 as amended: (a) data for which the poll mapping gives Completed makes a
\* forwarded webhook store Completed with the same results, and a poll that
\* stores Completed does so for data every forwarded webhook would complete
\* with; (b) the two mappings choose the same status whenever the event type
\* is not webset.search.completed or webset.search.canceled, or the first
\* search is completed, or the event is webset.search.canceled and the first
\* search is canceled.
C10_ChannelAgreement ==
  [][\A j \in DOMAIN jobs :
       /\ ( /\ HookHandles(j) /\ last'.kind = "updated"
            /\ jobs'[j].results.searches # "missing" )
          => LET data == jobs'[j].results
                 poll == PollTarget(jobs[j], data)
             IN /\ poll.status = COMPLETED
                   => jobs'[j].status = COMPLETED /\ jobs'[j].results = poll.results
                /\ ( \/ last'.event \notin TerminalSearchEvents
                     \/ data.searches = "completed"
                     \/ /\ last'.event = "webset.search.canceled"
                        /\ data.searches = "canceled" )
                   => jobs'[j].status = poll.status /\ jobs'[j].results = poll.results
       /\ ( /\ last'.op = "poll" /\ last'.kind = "fetched" /\ last'.jobId = j
            /\ last'.status = COMPLETED )
          => \A t \in ForwardedTypes :
               LET hook == HookTarget(jobs[j], t, last'.results)
               IN ~hook.thrown /\ hook.status = COMPLETED
                  /\ hook.results = jobs'[j].results]_vars

\* C10 witness: a webhook whose event type names no outcome completed a
\* Running job from data whose first search is completed.
C10_Witness ==
  /\ last.op = "webhook" /\ last.kind = "updated"
  /\ last.event = "webset.search.running"
  /\ jobs[last.jobId].status = COMPLETED
  /\ jobs[last.jobId].results.searches = "completed"

\* C11: a poll whose GET resolves stores and returns: Completed with the
\* response as results when the first search is completed; Failed with a
\* non-null error when it is canceled; Running with the response as results
\* for any other first-search status and for an empty searches array.
C11_PollMapping ==
  [][last'.kind = "fetched" =>
       \A p \in Pollers, shape \in PollShapes :
         getJobStatusFetched(p, shape) =>
           LET j == pollJob[p].jobId
               response == WebsetData(pollJob[p].websetId, shape)
               stored == jobs'[j]
           IN /\ last' = Ret("fetched", stored)
              /\ shape = "completed"
                   => stored.status = COMPLETED /\ stored.results = response
              /\ shape = "canceled"
                   => stored.status = FAILED /\ stored.error # Null
              /\ shape \in {"running", "empty"}
                   => stored.status = RUNNING /\ stored.results = response]_vars

\* C11 witness: a poll received a response with an empty searches array and
\* the record is Running with that response as results.
C11_Witness ==
  /\ last.op = "poll" /\ last.kind = "fetched"
  /\ last.results.searches = "empty"
  /\ jobs[last.jobId].status = RUNNING
  /\ jobs[last.jobId].results = WebsetData(jobs[last.jobId].websetId, "empty")

\* the body's data.id is the websetId of record j
HookMatches(body, j) == body.data.id # Null /\ jobs[j].websetId = body.data.id

\* C12: handling a webhook whose data.id is the websetId of no record adds no
\* record, throws nothing and leaves every record as it was.
C12_UnmatchedWebhookIsNoOp ==
  [][last'.op = "webhook" =>
       \A body \in Bodies :
         ( /\ body.kind = "object"
           /\ body.type = last'.event
           /\ \A j \in DOMAIN jobs : ~HookMatches(body, j)
           /\ WebhookEnd(body) )
         => /\ jobs' = jobs
            /\ last'.kind \in {"unmatched", "invalid", "logged"}]_vars

\* C12 witness: a forwarded webhook for a webset no record has was handled
\* while a Running record existed.
C12_Witness ==
  /\ last.op = "webhook" /\ last.kind = "unmatched"
  /\ \E j \in DOMAIN jobs : jobs[j].status = RUNNING /\ jobs[j].websetId # Null

\* C13: a malformed webhook body (not JSON, not an object, without type,
\* without data or data.id, or with data.object other than 'webset') is turned
\* away by the listener or by validatePayload and changes no record.
C13_MalformedWebhookRejected ==
  [][last'.op = "webhook" =>
       \A body \in MalformedBodies :
         WebhookEnd(body)
         => /\ jobs' = jobs
            /\ last'.kind \in {"parse_error", "invalid"}]_vars

\* C13 witness: a body naming webset.search.completed was turned away by
\* validatePayload while the record of webset w1 was Running.
C13_Witness ==
  /\ last.op = "webhook" /\ last.kind = "invalid"
  /\ last.event = "webset.search.completed"
  /\ \E j \in DOMAIN jobs : jobs[j].websetId = "w1" /\ jobs[j].status = RUNNING

\* tools/websets/README.md, Maintenance: "Jobs older than 24 hours are
\* automatically cleaned up", "Cleanup runs hourly by default".  With the clock
\* counted in periods of 25 hours (the maximum age plus one sweep interval), a
\* record whose updatedAt lies SweptAfter periods back has been older than 24
\* hours at the time of some hourly sweep.
SweptAfter == 2

\* C14: under the default retention policy (hourly sweep, 24-hour maximum
\* age, Completed records preserved) every record that is not Completed and
\* older than the maximum age is removed by the next sweep, so the registry
\* never holds a record that is not Completed and was that old when a sweep
\* was due.
C14_StaleRecordsAreSwept ==
  \A j \in DOMAIN jobs :
    jobs[j].status # COMPLETED => now - jobs[j].updatedAt < SweptAfter

C16_ErrorOnlyWhenFailed ==
  \A j \in DOMAIN jobs : jobs[j].error # Null => jobs[j].status = FAILED

\* C16 witness: a webhook made a record Failed with an error while a poll of
\* the same job is suspended at its GET.
C16_Witness ==
  \E j \in DOMAIN jobs :
    /\ jobs[j].status = FAILED /\ jobs[j].error = ErrHookCanceled
    /\ PollInFlight(j)

\* C17: in every reachable state a Completed record has non-null results,
\* whether a poll or a webhook wrote the terminal state and in whatever order
\* their writes landed.
C17_CompletedHasResults ==
  \A j \in DOMAIN jobs : jobs[j].status = COMPLETED => jobs[j].results # NullData

\* C17 witness: a webhook completed a record while a poll of the same job is
\* suspended at its GET.
C17_Witness ==
  /\ last.op = "webhook" /\ last.kind = "updated"
  /\ jobs[last.jobId].status = COMPLETED
  /\ PollInFlight(last.jobId)

\* C18: a record's websetId is assigned at most once: it changes only from
\* null to the id of the create response, in the step that settles the create
\* call, and no poll, webhook or stale write changes it or resets it afterwards.
C18_WebsetIdAssignedOnce ==
  [][\A j \in DOMAIN jobs :
       /\ j \in DOMAIN jobs'
       /\ jobs[j].websetId # Null => jobs'[j].websetId = jobs[j].websetId
       /\ (jobs[j].websetId = Null /\ jobs'[j].websetId # Null)
            => /\ startPc[j] = "await" /\ startPc'[j] = "returned"
               /\ jobs'[j].websetId = createResp'[j]]_vars

\* C18 witness: after a webhook was handled, a poll wrote the record from the
\* copy it read before its GET, and the websetId is still the created one.
C18_Witness ==
  /\ last.op = "poll" /\ last.kind \in {"fetched", "fetch_failed"}
  /\ hookHandled > 0
  /\ jobs[last.jobId].websetId # Null
  /\ jobs[last.jobId].websetId = createResp[last.jobId]

\* a startWebsetJob call begins in this step
SubmitStarts == DOMAIN createCalls' # DOMAIN createCalls

\* C19: every submit adds exactly one record, under a jobId the registry did
\* not hold, and nothing else adds or removes a key; the jobId inside a record
\* equals its key, and a record's jobId and createdAt never change.
C19_OneRecordPerJobId ==
  [][/\ SubmitStarts <=> DOMAIN jobs' # DOMAIN jobs
     /\ SubmitStarts =>
          \E j \in DOMAIN jobs' :
            /\ j \notin DOMAIN jobs
            /\ DOMAIN jobs' = DOMAIN jobs \cup {j}
            /\ jobs'[j].status = PENDING
     /\ \A j \in DOMAIN jobs' : jobs'[j].jobId = j
     /\ \A j \in DOMAIN jobs :
          /\ j \in DOMAIN jobs'
          /\ jobs'[j].jobId = jobs[j].jobId
          /\ jobs'[j].createdAt = jobs[j].createdAt]_vars

\* C19 witness: two submits made two records, and one of them has been
\* written again at a later time than its creation.
C19_Witness ==
  \E j, k \in DOMAIN jobs :
    /\ j # k
    /\ jobs[j].jobId = j /\ jobs[k].jobId = k
    /\ jobs[j].updatedAt > jobs[j].createdAt

\* C20: every webhook request is acknowledged before its body is parsed,
\* validated or applied: the step that handles a body, whatever becomes of the
\* body, handles a request acknowledged in an earlier step, and the
\* acknowledgment itself reads no body and changes no record.
C20_AckBeforeProcessing ==
  [][/\ last'.op = "webhook"
          => /\ hookHandled' = hookHandled + 1
             /\ hookHandled' <= hookAcked
             /\ hookAcked' = hookAcked
     /\ hookAcked' # hookAcked
          => /\ hookAcked' = hookAcked + 1
             /\ hookHandled' = hookHandled
             /\ jobs' = jobs
     /\ hookHandled' <= hookAcked']_vars

\* C20 witness: a body that is not JSON was handled after its request had
\* been acknowledged, while a second acknowledged request is still unhandled.
C20_Witness ==
  /\ last.op = "webhook" /\ last.kind = "parse_error"
  /\ hookHandled = 1 /\ hookAcked = 2

\* C21: a poll for a jobId the registry does not hold ends in the 'not found'
\* error, which the get_webset_job_status tool reports as an isError response;
\* it issues no upstream call, adds no record and changes no record.
C21_UnknownJobPollFails ==
  [][\A j \in JobIds \ DOMAIN jobs :
       PollStarts(j)
       => /\ last' = Last("poll", "not_found", j, Null, NullData, Null, Null)
          /\ JobStatusToolIsError(last')
          /\ fetchCalls' = fetchCalls
          /\ createCalls' = createCalls
          /\ pollPc' = pollPc
          /\ jobs' = jobs]_vars

\* C21 witness: a poll for an unknown jobId failed while the registry held a
\* Running record.
C21_Witness ==
  /\ last.op = "poll" /\ last.kind = "not_found"
  /\ last.jobId \notin DOMAIN jobs
  /\ \E j \in DOMAIN jobs : jobs[j].status = RUNNING

\* C22: once a webhook has made a record Completed or Failed, a later webhook
\* for the same job (the same event again, or an event that names no outcome)
\* leaves the record as it was: status, results, error and updatedAt.
C22_LateWebhookChangesNothing ==
  [][\A j \in DOMAIN jobs :
       (j \in hookFinal /\ HookHandles(j)) => jobs'[j] = jobs[j]]_vars

\* C24: a well-formed webset.search.canceled webhook whose data.id matches a
\* Running job makes the job Failed with a non-null error, whatever else the
\* data carries; the handler never throws and leaves the job Running.
C24_CanceledWebhookFailsJob ==
  [][\A j \in DOMAIN jobs :
       ( /\ HookHandles(j)
         /\ last'.event = "webset.search.canceled"
         /\ jobs[j].status = RUNNING )
       => /\ last'.kind = "updated"
          /\ jobs'[j].status = FAILED
          /\ jobs'[j].error # Null]_vars

\* the event types C25 names as forwarded
C25_Forwarded ==
  {"webset.search.created", "webset.search.running", "webset.search.completed",
   "webset.search.canceled", "webset.enrichment.completed",
   "webset.enrichment.canceled"}

\* C25: of the recognized event types and the unrecognized ones, exactly
\* search.created/running/completed/canceled and enrichment.completed/canceled
\* are forwarded to the job manager; a well-formed webhook of any other type
\* (unrecognized, or webset.created, webset.updated, webset.deleted,
\* webset.enrichment.created) is accepted, only logged, and changes no record.
C25_OnlyForwardedTypesReachJobs ==
  [][/\ \A t \in RecognizedTypes \cup SentTypes :
          RoutedToJobManager(normalizeEventType(t)) <=> t \in C25_Forwarded
     /\ last'.op = "webhook" =>
          \A body \in WellFormedBodies :
            ( /\ body.type = last'.event
              /\ body.type \notin C25_Forwarded
              /\ WebhookEnd(body) )
            => jobs' = jobs /\ last'.kind = "logged"]_vars

\* C25 witness: a webhook of an unrecognized type that names the webset of a
\* Running job was only logged.
C25_Witness ==
  /\ last.op = "webhook" /\ last.kind = "logged"
  /\ last.event \notin RecognizedTypes
  /\ \E j \in DOMAIN jobs :
       jobs[j].websetId = last.results.id /\ jobs[j].status = RUNNING

\* C26: every write of a record stamps it with the time of the write, so
\* updatedAt never moves backwards (also not by the write of a poll that was
\* suspended across another update), a status change always comes with an
\* updatedAt not earlier than before, and updatedAt is never earlier than
\* createdAt.
C26_UpdatedAtMonotone ==
  [][/\ \A j \in DOMAIN jobs :
          /\ jobs'[j].updatedAt >= jobs[j].updatedAt
          /\ jobs'[j].status # jobs[j].status => jobs'[j].updatedAt = now'
     /\ \A j \in DOMAIN jobs' : jobs'[j].updatedAt >= jobs'[j].createdAt]_vars

\* C26 witness: a poll that was suspended while a webhook finished the job
\* wrote the record at a later time than the job's creation.
C26_Witness ==
  /\ last.op = "poll" /\ last.kind = "fetched"
  /\ last.jobId \in hookFinal
  /\ jobs[last.jobId].updatedAt > jobs[last.jobId].createdAt

\* C27: a record is Pending only while its websetId is null; so no webhook
\* matches or changes a Pending record, and a status that has left Pending
\* never returns to it.
C27_PendingHasNoWebsetId ==
  [][/\ \A j \in DOMAIN jobs' :
          jobs'[j].status = PENDING => jobs'[j].websetId = Null
     /\ \A j \in DOMAIN jobs :
          /\ jobs[j].status # PENDING => jobs'[j].status # PENDING
          /\ jobs[j].status = PENDING
               => /\ ~HookHandles(j)
                  /\ last'.op = "webhook" => jobs'[j] = jobs[j]]_vars

\* C27 witness: a forwarded webhook naming the webset the upstream is about
\* to report for a Pending job was handled and matched nothing.
C27_Witness ==
  /\ last.op = "webhook" /\ last.kind = "unmatched"
  /\ last.event = "webset.search.running"
  /\ \E j \in DOMAIN jobs :
       /\ jobs[j].status = PENDING
       /\ last.results.id = UpstreamId(j)

\* C28: a webhook for the webset of a job whose create call is still in
\* flight matches no record and changes nothing (a completion event ends as
\* unmatched unless it is malformed); it is not replayed: when the create call
\* resolves the record becomes Running with null results, and a record
\* becomes Completed only in a step of a poll or of a webhook for that job.
C28_EarlyWebhookIsDropped ==
  [][\A j \in DOMAIN jobs :
       /\ ( /\ last'.op = "webhook"
            /\ startPc[j] = "await"
            /\ last'.results.id = UpstreamId(j) )
          => /\ jobs' = jobs
             /\ last'.kind \in {"unmatched", "logged", "invalid"}
             /\ last'.event = "webset.search.completed"
                  => last'.kind \in {"unmatched", "invalid"}
       /\ (startPc[j] = "await" /\ createResp'[j] # Null)
          => jobs'[j].status = RUNNING /\ jobs'[j].results = NullData
       /\ (jobs[j].status # COMPLETED /\ jobs'[j].status = COMPLETED)
          => last'.op \in {"poll", "webhook"} /\ last'.jobId = j]_vars

\* C28 witness: a completion webhook for the webset of a job whose create
\* call is in flight was handled and matched nothing.
C28_Witness ==
  /\ last.op = "webhook" /\ last.kind = "unmatched"
  /\ last.event = "webset.search.completed"
  /\ \E j \in DOMAIN jobs :
       startPc[j] = "await" /\ last.results.id = UpstreamId(j)

\* C29: handleWebhookUpdate reads, checks and writes the record in one step:
\* a webhook writes a record only if the record is not terminal in the state
\* the write is made from, and leaves a terminal record alone.  So when a
\* webhook has made a Running job terminal, any webhook for the same webset
\* processed next writes nothing: the first one's status, results and error
\* stay.
C29_WebhookHandlerIsAtomic ==
  [][\A j \in DOMAIN jobs :
       HookHandles(j)
       => /\ IsTerminal(jobs[j]) => (jobs' = jobs /\ last'.kind = "ignored")
          /\ jobs'[j] # jobs[j] => (~IsTerminal(jobs[j]) /\ last'.kind = "updated")
          /\ IsTerminal(jobs'[j])
               => \A next \in WellFormedBodies :
                    next.data.id = jobs'[j].websetId
                    => (processWebhook(next).jobs)' = jobs']_vars

\* C29 witness: with no poll involved, two webhooks naming an outcome were
\* handled for one job; the first made it terminal, the second was ignored.
C29_Witness ==
  /\ last.op = "webhook" /\ last.kind = "ignored"
  /\ last.event \in TerminalSearchEvents
  /\ last.jobId \in hookFinal
  /\ hookHandled = 2 /\ fetchCalls = 0

\* C30: a webhook step adds and removes no record and changes at most one:
\* the first record, in registry order, whose websetId is the body's data.id;
\* of that record it leaves jobId, websetId and createdAt as they were.
C30_WebhookWritesFirstMatchOnly ==
  [][last'.op = "webhook" =>
       /\ DOMAIN jobs' = DOMAIN jobs
       /\ \A j \in DOMAIN jobs :
            jobs'[j] # jobs[j]
            => /\ j = last'.jobId
               /\ jobs[j].websetId = last'.results.id
               /\ \A k \in DOMAIN jobs : k < j => jobs[k].websetId # last'.results.id
               /\ jobs'[j].jobId = jobs[j].jobId
               /\ jobs'[j].websetId = jobs[j].websetId
               /\ jobs'[j].createdAt = jobs[j].createdAt]_vars

\* C30 witness: with two records that both have a websetId, a webhook
\* updated the second and the first is Running as before.
C30_Witness ==
  /\ last.op = "webhook" /\ last.kind = "updated"
  /\ last.jobId = 2
  /\ jobs[1].websetId # Null /\ jobs[1].status = RUNNING
  /\ jobs[1].results = NullData

\* the stored status of job j is terminal and is the one the stored upstream
\* answer calls for
MatchesUpstream(j) ==
  \/ /\ jobs[j].status = COMPLETED
     /\ jobs[j].results.searches = "completed"
  \/ /\ jobs[j].status = FAILED
     /\ jobs[j].results.searches = "canceled"
     /\ jobs[j].error = ErrPollCanceled

====
